---- MODULE Spec2Model ----
(***************************************************************************)
(* A model of slides.md (src/main.go): the markdown-to-slide pipeline      *)
(* parseFrontmatter -> parseMarkdown -> markdownToHTML -> parseInline ->    *)
(* normalizeAssetPath, and main's deck assembly.                           *)
(*                                                                         *)
(* A Go string is modelled as a sequence of one-character strings, so      *)
(* "\n---\n" is <<"\n","-","-","-","\n">>.  Every conversion (TrimSpace,  *)
(* Split, EscapeString, the regular expressions) is computed character by  *)
(* character as the library computes it.                                   *)
(***************************************************************************)
EXTENDS Integers, Sequences, FiniteSets, TLC

(***************************************************************************)
(* Bounds of the model.                                                    *)
(***************************************************************************)
\* lines per document given to parseFrontmatter
MaxFrontLines == 5
\* lines per body given to parseMarkdown
MaxBodyLines == 4
\* pieces per line given to parseInline
MaxInlineFragments == 3
\* lines per slide given to markdownToHTML
MaxSlideLines == 3
\* lines per document given to main
MaxDocLines == 4

(***************************************************************************)
(* Go's strings package.                                                   *)
(***************************************************************************)
SetMin(S) == CHOOSE x \in S : \A y \in S : x <= y

SetMax(S) == CHOOSE x \in S : \A y \in S : y <= x

\* unicode.IsSpace restricted to the characters of the model
IsSpace(c) == c \in {" ", "\n", "\t", "\r"}

\* strings.TrimSpace
TrimSpace(s) ==
  LET keep == {i \in 1..Len(s) : ~IsSpace(s[i])}
  IN  IF keep = {} THEN <<>> ELSE SubSeq(s, SetMin(keep), SetMax(keep))

\* strings.HasPrefix
HasPrefix(s, prefix) ==
  Len(s) >= Len(prefix) /\ SubSeq(s, 1, Len(prefix)) = prefix

\* strings.TrimPrefix
TrimPrefix(s, prefix) ==
  IF HasPrefix(s, prefix) THEN SubSeq(s, Len(prefix) + 1, Len(s)) ELSE s

\* whether sep occurs in s at position i
MatchAt(s, sep, i) ==
  i >= 1 /\ i + Len(sep) - 1 <= Len(s) /\ SubSeq(s, i, i + Len(sep) - 1) = sep

\* strings.Index from position from on: the first position of sep, 0 if none
IndexFrom(s, sep, from) ==
  LET hits == {i \in from..(Len(s) - Len(sep) + 1) : MatchAt(s, sep, i)}
  IN  IF hits = {} THEN 0 ELSE SetMin(hits)

\* strings.Split for a non-empty sep: the non-overlapping occurrences of sep,
\* found left to right, cut s
RECURSIVE Split(_, _)
Split(s, sep) ==
  LET i == IndexFrom(s, sep, 1)
  IN  IF i = 0 THEN <<s>>
      ELSE <<SubSeq(s, 1, i - 1)>> \o Split(SubSeq(s, i + Len(sep), Len(s)), sep)

\* strings.SplitN(s, sep, 2)
SplitN2(s, sep) ==
  LET i == IndexFrom(s, sep, 1)
  IN  IF i = 0 THEN <<s>>
      ELSE <<SubSeq(s, 1, i - 1), SubSeq(s, i + Len(sep), Len(s))>>

\* strings.Join
RECURSIVE Join(_, _)
Join(elems, sep) ==
  IF Len(elems) = 0 THEN <<>>
  ELSE IF Len(elems) = 1 THEN elems[1]
  ELSE elems[1] \o sep \o Join(Tail(elems), sep)

\* strings.ReplaceAll for a non-empty old
RECURSIVE ReplaceAll(_, _, _)
ReplaceAll(s, old, new) ==
  LET i == IndexFrom(s, old, 1)
  IN  IF i = 0 THEN s
      ELSE SubSeq(s, 1, i - 1) \o new
           \o ReplaceAll(SubSeq(s, i + Len(old), Len(s)), old, new)

\* the number of non-overlapping occurrences of sub in s (strings.Count)
RECURSIVE Count(_, _)
Count(s, sub) ==
  LET i == IndexFrom(s, sub, 1)
  IN  IF i = 0 THEN 0 ELSE 1 + Count(SubSeq(s, i + Len(sub), Len(s)), sub)

NL == <<"\n">>

SlideBreak == <<"\n", "-", "-", "-", "\n">>

Dashes == <<"-", "-", "-">>

\* U+0060, the grave accent: the one character of the model that a TLA+ string
\* cannot hold, so it is named
Backtick == "U+0060"

Fence == <<Backtick, Backtick, Backtick>>

(***************************************************************************)
(* gopkg.in/yaml.v3 Unmarshal into Frontmatter{Title}, on the block        *)
(* parseFrontmatter hands it.  Each line is read as follows: an empty      *)
(* line, a document start marker (three dashes) and a key-colon-space-     *)
(* value pair are accepted (the key title sets Title); a line that opens   *)
(* a flow sequence and never closes it, or a bare scalar, is an error.     *)
(***************************************************************************)
TitleKey == <<"t", "i", "t", "l", "e", ":", " ">>

YamlLineOK(l) ==
  \/ TrimSpace(l) = <<>>
  \/ l = Dashes
  \/ \E i \in 1..Len(l) - 1 : l[i] = ":" /\ l[i + 1] = " " /\ i > 1 /\ l[1] # "["

yamlUnmarshal(fmText) ==
  LET ls     == Split(fmText, NL)
      ok     == \A i \in 1..Len(ls) : YamlLineOK(ls[i])
      titles == {i \in 1..Len(ls) : HasPrefix(ls[i], TitleKey)}
  IN  [err   |-> ~ok,
       Title |-> IF ok /\ titles # {}
                 THEN TrimSpace(TrimPrefix(ls[SetMax(titles)], TitleKey))
                 ELSE <<>>]

(***************************************************************************)
(* parseFrontmatter (src/main.go:256)                                      *)
(***************************************************************************)
\* parseFrontmatter handing back the trimmed text when the block does not parse
parseFrontmatterTrimmed(content) ==
  LET trimmed == TrimSpace(content)
      parts   == SplitN2(trimmed, SlideBreak)
  IN  IF ~HasPrefix(trimmed, Dashes \o NL) /\ trimmed # Dashes
      THEN [title |-> <<>>, body |-> content]
      ELSE IF Len(parts) # 2
      THEN [title |-> <<>>, body |-> content]
      ELSE LET fm == yamlUnmarshal(TrimPrefix(parts[1], Dashes \o NL))
           IN  IF fm.err
               THEN [title |-> <<>>, body |-> trimmed]
               ELSE [title |-> fm.Title, body |-> parts[2]]

parseFrontmatter(content) ==
  LET trimmed == TrimSpace(content)
      parts   == SplitN2(trimmed, SlideBreak)
  IN  IF ~HasPrefix(trimmed, Dashes \o NL) /\ trimmed # Dashes
      THEN [title |-> <<>>, body |-> content]
      ELSE IF Len(parts) # 2
      THEN [title |-> <<>>, body |-> content]
      ELSE LET fmText == TrimPrefix(parts[1], Dashes \o NL)
               fm     == yamlUnmarshal(fmText)
           IN  IF fm.err
               THEN [title |-> <<>>, body |-> content]
               ELSE [title |-> fm.Title, body |-> parts[2]]

(***************************************************************************)
(* html.EscapeString                                                       *)
(***************************************************************************)
\* EscapeString leaving every character as it is
EscapeCharNone(c) == <<c>>

EscapeChar(c) ==
  CASE c = "&"  -> <<"&", "a", "m", "p", ";">>
    [] c = "'"  -> <<"&", "#", "3", "9", ";">>
    [] c = "<"  -> <<"&", "l", "t", ";">>
    [] c = ">"  -> <<"&", "g", "t", ";">>
    [] c = "\"" -> <<"&", "#", "3", "4", ";">>
    [] OTHER    -> <<c>>

RECURSIVE EscapeString(_)
EscapeString(s) ==
  IF Len(s) = 0 THEN <<>> ELSE EscapeChar(Head(s)) \o EscapeString(Tail(s))

(***************************************************************************)
(* normalizeAssetPath (src/main.go:54)                                     *)
(***************************************************************************)
UpperLetters ==
  <<"A", "B", "C", "D", "E", "F", "G", "H", "I", "J", "K", "L", "M",
    "N", "O", "P", "Q", "R", "S", "T", "U", "V", "W", "X", "Y", "Z">>

LowerLetters ==
  <<"a", "b", "c", "d", "e", "f", "g", "h", "i", "j", "k", "l", "m",
    "n", "o", "p", "q", "r", "s", "t", "u", "v", "w", "x", "y", "z">>

\* ToLower keeping the case of every letter
ToLowerCaseKept(s) == s

\* strings.ToLower
ToLower(s) ==
  [i \in 1..Len(s) |->
     IF \E n \in 1..26 : UpperLetters[n] = s[i]
     THEN LowerLetters[CHOOSE n \in 1..26 : UpperLetters[n] = s[i]]
     ELSE s[i]]

HttpPrefix == <<"h", "t", "t", "p", ":", "/", "/">>

HttpsPrefix == <<"h", "t", "t", "p", "s", ":", "/", "/">>

DataPrefix == <<"d", "a", "t", "a", ":">>

AssetsPrefix == <<"/", "a", "s", "s", "e", "t", "s", "/">>

normalizeAssetPath(src) ==
  LET lower == ToLower(src)
  IN  IF \/ HasPrefix(lower, HttpPrefix)
         \/ HasPrefix(lower, HttpsPrefix)
         \/ HasPrefix(lower, DataPrefix)
         \/ HasPrefix(lower, <<"/">>)
      THEN src
      ELSE AssetsPrefix \o src

(***************************************************************************)
(* parseInline (src/main.go:399): the regular expressions.  Each XMatchEnd *)
(* (s, i) is the last position of the match of X that starts at i, 0 when  *)
(* X does not match there.                                                 *)
(***************************************************************************)
\* the first position >= j of s that holds c, 0 if none
NextIndex(s, c, j) ==
  LET hits == {k \in j..Len(s) : s[k] = c}
  IN  IF hits = {} THEN 0 ELSE SetMin(hits)

\* \s of Go's regexp: [\t\n\f\r ]
IsRegexSpace(c) == c \in {" ", "\t", "\n", "\f", "\r"}

\* line 405: a backtick, one or more characters that are no backtick, a backtick
CodeMatchEnd(s, i) ==
  IF s[i] # Backtick THEN 0
  ELSE LET k == NextIndex(s, Backtick, i + 1)
       IN  IF k >= i + 2 THEN k ELSE 0

\* line 421: !\[([^\]]*)\]\(([^)]+)\)
ImageMatchEnd(s, i) ==
  IF ~(s[i] = "!" /\ i + 1 <= Len(s) /\ s[i + 1] = "[") THEN 0
  ELSE LET k == NextIndex(s, "]", i + 2)
       IN  IF ~(k # 0 /\ k + 1 <= Len(s) /\ s[k + 1] = "(") THEN 0
           ELSE LET m == NextIndex(s, ")", k + 2)
                IN  IF m >= k + 3 THEN m ELSE 0

\* line 433: \[([^\]]+)\]\(([^)]+)\)
LinkMatchEnd(s, i) ==
  IF s[i] # "[" THEN 0
  ELSE LET k == NextIndex(s, "]", i + 1)
       IN  IF ~(k >= i + 2 /\ k + 1 <= Len(s) /\ s[k + 1] = "(") THEN 0
           ELSE LET m == NextIndex(s, ")", k + 2)
                IN  IF m >= k + 3 THEN m ELSE 0

\* line 445: \*\*([^*]+)\*\*
BoldMatchEnd(s, i) ==
  IF ~(s[i] = "*" /\ i + 2 <= Len(s) /\ s[i + 1] = "*" /\ s[i + 2] # "*") THEN 0
  ELSE LET k == NextIndex(s, "*", i + 3)
       IN  IF k # 0 /\ k + 1 <= Len(s) /\ s[k + 1] = "*" THEN k + 1 ELSE 0

\* line 450: the position of the opening asterisk of (^|\s)\*, 0 if none
ItalicOpen(s, i) ==
  IF i = 1 /\ s[1] = "*" THEN 1
  ELSE IF IsRegexSpace(s[i]) /\ i + 1 <= Len(s) /\ s[i + 1] = "*" THEN i + 1
  ELSE 0

\* line 450: the position of the closing asterisk, 0 if none
ItalicClose(s, i) ==
  LET o == ItalicOpen(s, i)
      k == NextIndex(s, "*", o + 1)
  IN  IF o = 0 THEN 0
      ELSE IF k >= o + 2 /\ \A j \in (o + 1)..(k - 1) : s[j] # "\n" THEN k
      ELSE 0

\* line 450: (^|\s)\*([^*\n]+?)\*(\s|$)
ItalicMatchEnd(s, i) ==
  LET k == ItalicClose(s, i)
  IN  IF k = 0 THEN 0
      ELSE IF k + 1 <= Len(s) /\ IsRegexSpace(s[k + 1]) THEN k + 1
      ELSE IF k = Len(s) THEN k
      ELSE 0

(***************************************************************************)
(* parseInline: the passes.                                                *)
(***************************************************************************)
DecimalDigits == <<"0", "1", "2", "3", "4", "5", "6", "7", "8", "9">>

\* %d
RECURSIVE Decimal(_)
Decimal(n) ==
  IF n < 10 THEN <<DecimalDigits[n + 1]>>
  ELSE Decimal(n \div 10) \o <<DecimalDigits[(n % 10) + 1]>>

\* line 409: fmt.Sprintf("__CODE%d__", codeCounter)
Placeholder(codeCounter) ==
  <<"_", "_", "C", "O", "D", "E">> \o Decimal(codeCounter) \o <<"_", "_">>

CodeOpen == <<"<", "c", "o", "d", "e", ">">>

CodeClose == <<"<", "/", "c", "o", "d", "e", ">">>

\* line 413: fmt.Sprintf("<code>%s</code>", parts[1])
CodeMarkup(inner) == CodeOpen \o inner \o CodeClose

\* lines 408-418: the text with every code span replaced by its placeholder
RECURSIVE CodeText(_, _, _)
CodeText(s, i, codeCounter) ==
  LET starts == {j \in i..Len(s) : CodeMatchEnd(s, j) # 0}
  IN  IF starts = {} THEN SubSeq(s, i, Len(s))
      ELSE LET j == SetMin(starts)
           IN  SubSeq(s, i, j - 1) \o Placeholder(codeCounter)
               \o CodeText(s, CodeMatchEnd(s, j) + 1, codeCounter + 1)

\* lines 408-418: codePlaceholders; entry n + 1 is the markup kept for
\* Placeholder(n)
RECURSIVE CodePlaceholders(_, _)
CodePlaceholders(s, i) ==
  LET starts == {j \in i..Len(s) : CodeMatchEnd(s, j) # 0}
  IN  IF starts = {} THEN <<>>
      ELSE LET j == SetMin(starts)
               e == CodeMatchEnd(s, j)
           IN  <<CodeMarkup(SubSeq(s, j + 1, e - 1))>> \o CodePlaceholders(s, e + 1)

\* lines 423-429
ImageRepl(s, i, e) ==
  LET k   == NextIndex(s, "]", i + 2)
      alt == SubSeq(s, i + 2, k - 1)
      src == normalizeAssetPath(SubSeq(s, k + 2, e - 1))
  IN  <<"<", "i", "m", "g", " ", "s", "r", "c", "=", "\"">> \o src
      \o <<"\"", " ", "a", "l", "t", "=", "\"">> \o alt \o <<"\"", "/", ">">>

\* lines 435-441
LinkRepl(s, i, e) ==
  LET k     == NextIndex(s, "]", i + 1)
      label == SubSeq(s, i + 1, k - 1)
      href  == normalizeAssetPath(SubSeq(s, k + 2, e - 1))
  IN  <<"<", "a", " ", "h", "r", "e", "f", "=", "\"">> \o href
      \o <<"\"", ">">> \o label \o <<"<", "/", "a", ">">>

\* line 446: <strong>$1</strong>
BoldRepl(s, i, e) ==
  <<"<", "s", "t", "r", "o", "n", "g", ">">> \o SubSeq(s, i + 2, e - 2)
  \o <<"<", "/", "s", "t", "r", "o", "n", "g", ">">>

\* line 451: $1<em>$2</em>$3
ItalicRepl(s, i, e) ==
  LET o == ItalicOpen(s, i)
      k == ItalicClose(s, i)
  IN  SubSeq(s, i, o - 1) \o <<"<", "e", "m", ">">> \o SubSeq(s, o + 1, k - 1)
      \o <<"<", "/", "e", "m", ">">> \o SubSeq(s, k + 1, e)

\* the match of regular expression re that starts at position i of s
MatchEnd(re, s, i) ==
  CASE re = "imageRegex"  -> ImageMatchEnd(s, i)
    [] re = "linkRegex"   -> LinkMatchEnd(s, i)
    [] re = "boldRegex"   -> BoldMatchEnd(s, i)
    [] re = "italicRegex" -> ItalicMatchEnd(s, i)

\* what the match s[i..e] of re is replaced by
Repl(re, s, i, e) ==
  CASE re = "imageRegex"  -> ImageRepl(s, i, e)
    [] re = "linkRegex"   -> LinkRepl(s, i, e)
    [] re = "boldRegex"   -> BoldRepl(s, i, e)
    [] re = "italicRegex" -> ItalicRepl(s, i, e)

\* regexp.ReplaceAllString / ReplaceAllStringFunc from position i on: the
\* leftmost match is replaced, and the search goes on after it
RECURSIVE ReplaceAllFunc(_, _, _)
ReplaceAllFunc(re, s, i) ==
  LET starts == {j \in i..Len(s) : MatchEnd(re, s, j) # 0}
  IN  IF starts = {} THEN SubSeq(s, i, Len(s))
      ELSE LET j == SetMin(starts)
               e == MatchEnd(re, s, j)
           IN  SubSeq(s, i, j - 1) \o Repl(re, s, j, e)
               \o ReplaceAllFunc(re, s, e + 1)

\* lines 420-451: the image, link, bold and italic passes, in this order
MarkupPasses(text) ==
  LET images == ReplaceAllFunc("imageRegex", text, 1)
      links  == ReplaceAllFunc("linkRegex", images, 1)
      bold   == ReplaceAllFunc("boldRegex", links, 1)
  IN  ReplaceAllFunc("italicRegex", bold, 1)

\* lines 454-456, one pass of the range over codePlaceholders
RestoreOne(text, codes, n) == ReplaceAll(text, Placeholder(n), codes[n + 1])

\* lines 454-456 with the map ranged over in the order given
RECURSIVE RestoreIn(_, _, _)
RestoreIn(text, codes, order) ==
  IF Len(order) = 0 THEN text
  ELSE RestoreIn(RestoreOne(text, codes, Head(order)), codes, Tail(order))

\* the orders a range over a map of n entries can take: Go leaves it unspecified
MapOrders(n) ==
  {o \in [1..n -> 0..n - 1] : \A a, b \in 1..n : a # b => o[a] # o[b]}

\* what parseInline(text) can return
parseInline(text) ==
  LET escaped == EscapeString(text)
      codes   == CodePlaceholders(escaped, 1)
      marked  == MarkupPasses(CodeText(escaped, 1, 0))
  IN  {RestoreIn(marked, codes, o) : o \in MapOrders(Len(codes))}

(***************************************************************************)
(* The state: main's locals, and the locals of the function main is in.    *)
(***************************************************************************)
VARIABLES
  pc,              \* where main, or the function it has called, is
  mdContent,       \* main: the document read from the file
  deckTitle,       \* main: parseFrontmatter's first result
  body,            \* main: parseFrontmatter's second result
  firstSlide,      \* theme.FirstSlide
  lastSlide,       \* theme.LastSlide
  slidesContent,   \* main: the raw slides
  slides,          \* main: the deck, a sequence of Slide
  i,               \* main: the index of the loop over slidesContent, from 0
  lines,           \* parseMarkdown: lines
  lineNo,          \* parseMarkdown: the position of the range loop
  currentSlide,    \* parseMarkdown: currentSlide
  segInCodeBlock,  \* parseMarkdown: inCodeBlock
  pmSlides,        \* parseMarkdown: slides, the value it returns
  mdLines,         \* markdownToHTML: lines
  mdLineNo,        \* markdownToHTML: the position of the range loop
  result,          \* markdownToHTML: result
  inCodeBlock,     \* markdownToHTML: inCodeBlock
  inUL,            \* markdownToHTML: inUL
  inOL,            \* markdownToHTML: inOL
  dispatched,      \* history: the trimmed lines markdownToHTML has emitted as a
                   \* heading, rule, list item or paragraph
  rawOf,           \* history: rawOf[k] is the raw slide slides[k] was made from
  text,            \* parseInline: text
  codePlaceholders,\* parseInline: codePlaceholders, entry n + 1 for Placeholder(n)
  ranged,          \* parseInline: the keys the range over codePlaceholders has
                   \* visited
  inlineArg,       \* history: the argument parseInline was called with
  themeLogo,       \* renderSlides: theme.Logo
  dataLogo,        \* renderSlides: data.Logo
  transition,      \* page: the transition-... class of the slide container
  totalSlides,     \* script: totalSlides
  jsCurrentSlide,  \* script: currentSlide
  classList,       \* page: classList[k] of the slide element slides[k]
  counter,         \* page: the text of the element with id current
  timers,          \* browser: the setTimeout callbacks not yet run, in the order
                   \* set; each is the index of the slide it deactivates
  listeners        \* browser: listeners[k], the transitionend listeners of
                   \* slides[k] in the order added

vars == <<pc, mdContent, deckTitle, body, firstSlide, lastSlide, slidesContent,
          slides, i, lines, lineNo, currentSlide, segInCodeBlock, pmSlides,
          mdLines, mdLineNo, result, inCodeBlock, inUL, inOL, dispatched, rawOf,
          text, codePlaceholders, ranged, inlineArg, themeLogo, dataLogo,
          transition, totalSlides, jsCurrentSlide, classList, counter, timers,
          listeners>>

mainVars == <<mdContent, deckTitle, body, firstSlide, lastSlide>>

segVars == <<lines, lineNo, currentSlide, segInCodeBlock, pmSlides>>

mdVars == <<mdLines, mdLineNo, result, inCodeBlock, inUL, inOL, dispatched, rawOf>>

inlineVars == <<text, codePlaceholders, ranged, inlineArg>>

navVars == <<transition, totalSlides, jsCurrentSlide, classList, counter, timers,
            listeners>>

pageVars == <<themeLogo, dataLogo, navVars>>

\* every sequence of at most n elements of S
SeqsUpTo(S, n) == UNION {[1..k -> S] : k \in 0..n}

(***************************************************************************)
(* main, line 131: deckTitle, body := parseFrontmatter(string(mdContent))  *)
(***************************************************************************)
CallParseFrontmatter ==
  /\ pc = "parseFrontmatter"
  /\ LET r == parseFrontmatter(mdContent)
     IN  /\ deckTitle' = r.title
         /\ body' = r.body
  /\ pc' = "parseMarkdown"
  /\ UNCHANGED <<mdContent, firstSlide, lastSlide, slidesContent, slides, i>>
  /\ UNCHANGED <<segVars, mdVars, inlineVars, pageVars>>

(***************************************************************************)
(* parseMarkdown (src/main.go:204)                                         *)
(***************************************************************************)
\* SlideBreakParts keeping no part
SlideBreakPartsDropped(parts) == <<>>

\* lines 243-248: the trimmed, non-empty parts
RECURSIVE SlideBreakParts(_)
SlideBreakParts(parts) ==
  IF Len(parts) = 0 THEN <<>>
  ELSE LET part == TrimSpace(Head(parts))
       IN  (IF part # <<>> THEN <<part>> ELSE <<>>) \o SlideBreakParts(Tail(parts))

\* StartsSlide without the fence flag
StartsSlideIgnoringFence(line, inCode) == HasPrefix(line, <<"#">>)

\* line 227: whether a line of the heading loop starts a new slide
StartsSlide(line, inCode) == ~inCode /\ HasPrefix(line, <<"#">>)

\* lines 209-218 and 242-251: trim, split on the slide break; with a break, return
\* the parts; without, enter the heading loop
ParseMarkdownSplit ==
  /\ pc = "parseMarkdown"
  /\ LET content == TrimSpace(body)
         parts   == Split(content, SlideBreak)
     IN  IF Len(parts) = 1
         THEN /\ lines' = Split(content, NL)
              /\ lineNo' = 1
              /\ currentSlide' = <<>>
              /\ segInCodeBlock' = FALSE
              /\ pmSlides' = <<>>
              /\ pc' = "headingLoop"
              /\ UNCHANGED slidesContent
         ELSE /\ pmSlides' = SlideBreakParts(parts)
              /\ slidesContent' = pmSlides'
              /\ pc' = "augment"
              /\ UNCHANGED <<lines, lineNo, currentSlide, segInCodeBlock>>
  /\ UNCHANGED <<mainVars, slides, i, mdVars, inlineVars, pageVars>>

\* lines 220-236: one pass of the loop over lines
HeadingLoopStep ==
  /\ pc = "headingLoop"
  /\ lineNo <= Len(lines)
  /\ LET line == lines[lineNo]
     IN  IF HasPrefix(line, Fence)
         THEN /\ segInCodeBlock' = ~segInCodeBlock
              /\ currentSlide' = Append(currentSlide, line)
              /\ UNCHANGED pmSlides
         ELSE IF StartsSlide(line, segInCodeBlock)
         THEN /\ pmSlides' = IF Len(currentSlide) > 0
                             THEN Append(pmSlides, Join(currentSlide, NL))
                             ELSE pmSlides
              /\ currentSlide' = <<line>>
              /\ UNCHANGED segInCodeBlock
         ELSE /\ currentSlide' = Append(currentSlide, line)
              /\ UNCHANGED <<segInCodeBlock, pmSlides>>
  /\ lineNo' = lineNo + 1
  /\ UNCHANGED <<pc, lines, slidesContent, slides, i>>
  /\ UNCHANGED <<mainVars, mdVars, inlineVars, pageVars>>

\* lines 238-240 and 251: the last flush, and the return to main's line 132
HeadingLoopReturn ==
  /\ pc = "headingLoop"
  /\ lineNo > Len(lines)
  /\ pmSlides' = IF Len(currentSlide) > 0
                 THEN Append(pmSlides, Join(currentSlide, NL))
                 ELSE pmSlides
  /\ slidesContent' = pmSlides'
  /\ pc' = "augment"
  /\ UNCHANGED <<lines, lineNo, currentSlide, segInCodeBlock, slides, i>>
  /\ UNCHANGED <<mainVars, mdVars, inlineVars, pageVars>>

(***************************************************************************)
(* parseInline (src/main.go:399), pass by pass.                            *)
(***************************************************************************)
inlineFrame ==
  UNCHANGED <<mainVars, slidesContent, slides, i, segVars, mdVars, inlineArg,
              pageVars>>

\* line 402
InlineEscape ==
  /\ pc = "escape"
  /\ text' = EscapeString(text)
  /\ pc' = "codeRegex"
  /\ UNCHANGED <<codePlaceholders, ranged>>
  /\ inlineFrame

\* lines 405-418
InlineCode ==
  /\ pc = "codeRegex"
  /\ text' = CodeText(text, 1, 0)
  /\ codePlaceholders' = CodePlaceholders(text, 1)
  /\ pc' = "imageRegex"
  /\ UNCHANGED ranged
  /\ inlineFrame

\* lines 421-430
InlineImage ==
  /\ pc = "imageRegex"
  /\ text' = ReplaceAllFunc("imageRegex", text, 1)
  /\ pc' = "linkRegex"
  /\ UNCHANGED <<codePlaceholders, ranged>>
  /\ inlineFrame

\* lines 433-442
InlineLink ==
  /\ pc = "linkRegex"
  /\ text' = ReplaceAllFunc("linkRegex", text, 1)
  /\ pc' = "boldRegex"
  /\ UNCHANGED <<codePlaceholders, ranged>>
  /\ inlineFrame

\* lines 445-446
InlineBold ==
  /\ pc = "boldRegex"
  /\ text' = ReplaceAllFunc("boldRegex", text, 1)
  /\ pc' = "italicRegex"
  /\ UNCHANGED <<codePlaceholders, ranged>>
  /\ inlineFrame

\* lines 450-451
InlineItalic ==
  /\ pc = "italicRegex"
  /\ text' = ReplaceAllFunc("italicRegex", text, 1)
  /\ pc' = "restore"
  /\ UNCHANGED <<codePlaceholders, ranged>>
  /\ inlineFrame

\* lines 454-456: one pass of the range over the map, in whatever order Go's
\* runtime takes
InlineRestore ==
  /\ pc = "restore"
  /\ \E n \in (0..Len(codePlaceholders) - 1) \ ranged :
        /\ text' = RestoreOne(text, codePlaceholders, n)
        /\ ranged' = ranged \cup {n}
  /\ UNCHANGED <<pc, codePlaceholders>>
  /\ inlineFrame

\* line 458
InlineReturn ==
  /\ pc = "restore"
  /\ ranged = 0..Len(codePlaceholders) - 1
  /\ pc' = "returned"
  /\ UNCHANGED <<text, codePlaceholders, ranged>>
  /\ inlineFrame

(***************************************************************************)
(* markdownToHTML (src/main.go:278), line by line.                         *)
(***************************************************************************)
ULOpen == <<"<", "u", "l", ">", "\n">>

ULClose == <<"<", "/", "u", "l", ">", "\n">>

OLOpen == <<"<", "o", "l", ">", "\n">>

\* the closing tag of the ordered list left out
OLCloseOmitted == <<>>

OLClose == <<"<", "/", "o", "l", ">", "\n">>

PreOpen == <<"<", "p", "r", "e", ">", "<", "c", "o", "d", "e", ">">>

\* the end of the code container left out
PreCloseOmitted == <<>>

PreClose == <<"<", "/", "c", "o", "d", "e", ">", "<", "/", "p", "r", "e", ">">>

HR == <<"<", "h", "r", ">", "\n">>

\* line 350 and 365: fmt.Sprintf("<li>%s</li>\n", content)
ListItem(content) ==
  <<"<", "l", "i", ">">> \o content \o <<"<", "/", "l", "i", ">", "\n">>

\* line 381: fmt.Sprintf("<p>%s</p>\n", content)
Paragraph(content) == <<"<", "p", ">">> \o content \o <<"<", "/", "p", ">", "\n">>

\* line 328: fmt.Sprintf("<h%d>%s</h%d>\n", level, content, level)
Heading(level, content) ==
  <<"<", "h">> \o Decimal(level) \o <<">">> \o content
  \o <<"<", "/", "h">> \o Decimal(level) \o <<">", "\n">>

\* lines 321-324: the number of leading # characters
RECURSIVE HashRun(_, _)
HashRun(trimmed, level) ==
  IF level < Len(trimmed) /\ trimmed[level + 1] = "#"
  THEN HashRun(trimmed, level + 1)
  ELSE level

IsDigit(c) == c \in {"0", "1", "2", "3", "4", "5", "6", "7", "8", "9"}

\* the length of the run of characters satisfying a class that starts at j
RECURSIVE DigitRun(_, _)
DigitRun(s, j) ==
  IF j <= Len(s) /\ IsDigit(s[j]) THEN 1 + DigitRun(s, j + 1) ELSE 0

RECURSIVE SpaceRun(_, _)
SpaceRun(s, j) ==
  IF j <= Len(s) /\ IsRegexSpace(s[j]) THEN 1 + SpaceRun(s, j + 1) ELSE 0

\* line 51, orderedListRegex ^(\d+)\.\s+(.+)$ on a trimmed line: where the
\* second group starts, 0 when the line does not match
OrderedRestStart(trimmed) ==
  LET d == DigitRun(trimmed, 1)
      w == SpaceRun(trimmed, d + 2)
  IN  IF /\ d >= 1
         /\ d + 1 <= Len(trimmed)
         /\ trimmed[d + 1] = "."
         /\ w >= 1
         /\ d + 1 + w < Len(trimmed)
      THEN d + 2 + w
      ELSE 0

\* lines 292-382: the branch a line takes
LineKind(trimmed, inCode) ==
  IF HasPrefix(trimmed, Fence) THEN "fence"
  ELSE IF inCode THEN "code"
  ELSE IF HasPrefix(trimmed, <<"#">>) /\ HashRun(trimmed, 0) <= 6 THEN "heading"
  ELSE IF trimmed \in {Dashes, <<"*", "*", "*">>, <<"_", "_", "_">>} THEN "rule"
  ELSE IF HasPrefix(trimmed, <<"-", " ">>) \/ HasPrefix(trimmed, <<"*", " ">>)
  THEN "unordered"
  ELSE IF OrderedRestStart(trimmed) # 0 THEN "ordered"
  ELSE IF trimmed # <<>> THEN "paragraph"
  ELSE "blank"

\* the line the loop is at, and its trimmed form (line 290)
Line == mdLines[mdLineNo]

Trimmed == TrimSpace(Line)

AtLine(kind) ==
  /\ pc = "mdLoop"
  /\ mdLineNo <= Len(mdLines)
  /\ LineKind(Trimmed, inCodeBlock) = kind

\* the open lists left open
CloseListsOmitted == <<>>

\* what is written when the open lists are closed (lines 295-302, 372-379)
CloseLists == (IF inUL THEN ULClose ELSE <<>>) \o (IF inOL THEN OLClose ELSE <<>>)

mdFrame ==
  /\ mdLineNo' = mdLineNo + 1
  /\ UNCHANGED <<pc, mdLines, rawOf, mainVars, slidesContent, slides, i>>
  /\ UNCHANGED <<segVars, inlineVars, pageVars>>

\* lines 293-311
FenceLine ==
  /\ AtLine("fence")
  /\ result' = result \o CloseLists \o (IF inCodeBlock THEN PreClose ELSE PreOpen)
  /\ inUL' = FALSE
  /\ inOL' = FALSE
  /\ inCodeBlock' = ~inCodeBlock
  /\ UNCHANGED dispatched
  /\ mdFrame

\* lines 314-315
CodeLineText(line) == EscapeString(line) \o NL

\* lines 313-317
CodeLine ==
  /\ AtLine("code")
  /\ result' = result \o CodeLineText(Line)
  /\ UNCHANGED <<inUL, inOL, inCodeBlock, dispatched>>
  /\ mdFrame

\* lines 320-331
HeadingLine ==
  /\ AtLine("heading")
  /\ LET level == HashRun(Trimmed, 0)
     IN  \E content \in parseInline(TrimSpace(SubSeq(Trimmed, level + 1, Len(Trimmed)))) :
            result' = result \o Heading(level, content)
  /\ dispatched' = dispatched \cup {Trimmed}
  /\ UNCHANGED <<inUL, inOL, inCodeBlock>>
  /\ mdFrame

\* lines 334-337
RuleLine ==
  /\ AtLine("rule")
  /\ result' = result \o HR
  /\ dispatched' = dispatched \cup {Trimmed}
  /\ UNCHANGED <<inUL, inOL, inCodeBlock>>
  /\ mdFrame

\* lines 340-352
UnorderedItem ==
  /\ AtLine("unordered")
  /\ \E content \in parseInline(TrimPrefix(TrimPrefix(Trimmed, <<"-", " ">>), <<"*", " ">>)) :
        result' = result \o (IF inOL THEN OLClose ELSE <<>>)
                  \o (IF ~inUL THEN ULOpen ELSE <<>>) \o ListItem(content)
  /\ inOL' = FALSE
  /\ inUL' = TRUE
  /\ dispatched' = dispatched \cup {Trimmed}
  /\ UNCHANGED inCodeBlock
  /\ mdFrame

\* lines 355-367
OrderedItem ==
  /\ AtLine("ordered")
  /\ \E content \in parseInline(SubSeq(Trimmed, OrderedRestStart(Trimmed), Len(Trimmed))) :
        result' = result \o (IF inUL THEN ULClose ELSE <<>>)
                  \o (IF ~inOL THEN OLOpen ELSE <<>>) \o ListItem(content)
  /\ inUL' = FALSE
  /\ inOL' = TRUE
  /\ dispatched' = dispatched \cup {Trimmed}
  /\ UNCHANGED inCodeBlock
  /\ mdFrame

\* lines 370-382
ParagraphLine ==
  /\ AtLine("paragraph")
  /\ \E content \in parseInline(Trimmed) :
        result' = result \o CloseLists \o Paragraph(content)
  /\ inUL' = FALSE
  /\ inOL' = FALSE
  /\ dispatched' = dispatched \cup {Trimmed}
  /\ UNCHANGED inCodeBlock
  /\ mdFrame

\* line 370 with trimmed empty: nothing is written
BlankLine ==
  /\ AtLine("blank")
  /\ UNCHANGED <<result, inUL, inOL, inCodeBlock, dispatched>>
  /\ mdFrame

\* zero-based numbering of the deck
SlideNumberFromZero(index) == index

\* line 147: Number: i + 1
SlideNumber(index) == index + 1

\* lines 385-395, and lines 145-148 of main, which stores the Slide
EndOfInput ==
  /\ pc = "mdLoop"
  /\ mdLineNo > Len(mdLines)
  /\ result' = result \o (IF inCodeBlock THEN PreClose ELSE <<>>)
               \o (IF inUL THEN ULClose ELSE <<>>)
               \o (IF inOL THEN OLClose ELSE <<>>)
  /\ slides' = [slides EXCEPT ![i + 1] = [Content |-> result', Number |-> SlideNumber(i)]]
  /\ rawOf' = [rawOf EXCEPT ![i + 1] = slidesContent[i + 1]]
  /\ i' = i + 1
  /\ pc' = "convert"
  /\ UNCHANGED <<mdLines, mdLineNo, inCodeBlock, inUL, inOL, dispatched>>
  /\ UNCHANGED <<mainVars, slidesContent, segVars, inlineVars, pageVars>>

(***************************************************************************)
(* main (src/main.go:109), lines 134-149.                                  *)
(***************************************************************************)
ZeroSlide == [Content |-> <<>>, Number |-> 0]

\* lines 135-140
Augmented(content, first, last) ==
  (IF TrimSpace(first) # <<>> THEN <<first>> ELSE <<>>)
  \o content
  \o (IF TrimSpace(last) # <<>> THEN <<last>> ELSE <<>>)

\* lines 135-143
Augment ==
  /\ pc = "augment"
  /\ slidesContent' = Augmented(slidesContent, firstSlide, lastSlide)
  /\ slides' = [k \in 1..Len(slidesContent') |-> ZeroSlide]
  /\ rawOf' = [k \in 1..Len(slidesContent') |-> <<>>]
  /\ i' = 0
  /\ pc' = "convert"
  /\ UNCHANGED <<mdLines, mdLineNo, result, inCodeBlock, inUL, inOL, dispatched>>
  /\ UNCHANGED <<mainVars, segVars, inlineVars, pageVars>>

\* lines 144-146 and 278-287: the next slide is handed to markdownToHTML, which
\* returns at once for the empty string
ConvertSlide ==
  /\ pc = "convert"
  /\ i < Len(slidesContent)
  /\ LET md == slidesContent[i + 1]
     IN  IF md = <<>>
         THEN /\ slides' = [slides EXCEPT ![i + 1] =
                              [Content |-> <<>>, Number |-> SlideNumber(i)]]
              /\ rawOf' = [rawOf EXCEPT ![i + 1] = md]
              /\ i' = i + 1
              /\ UNCHANGED <<pc, mdLines, mdLineNo, result, inCodeBlock, inUL, inOL>>
         ELSE /\ mdLines' = Split(md, NL)
              /\ mdLineNo' = 1
              /\ result' = <<>>
              /\ inCodeBlock' = FALSE
              /\ inUL' = FALSE
              /\ inOL' = FALSE
              /\ pc' = "mdLoop"
              /\ UNCHANGED <<slides, rawOf, i>>
  /\ UNCHANGED <<dispatched, mainVars, slidesContent, segVars, inlineVars, pageVars>>

\* line 149: the loop is over and the deck is handed to the handlers
ConvertDone ==
  /\ pc = "convert"
  /\ i >= Len(slidesContent)
  /\ pc' = "serve"
  /\ UNCHANGED <<mainVars, slidesContent, slides, i, segVars, mdVars, inlineVars, pageVars>>

(***************************************************************************)
(* renderSlides (src/main.go:813): the logo of the page.                   *)
(***************************************************************************)
SetLogo ==
  /\ pc = "renderSlides"
  /\ dataLogo' = normalizeAssetPath(themeLogo)
  /\ pc' = "rendered"
  /\ UNCHANGED <<themeLogo, navVars, mainVars, slidesContent, slides, i>>
  /\ UNCHANGED <<segVars, mdVars, inlineVars>>

(***************************************************************************)
(* The navigation script of the page (src/main.go:683-758).                *)
(***************************************************************************)
MaxPending == 4

\* the callbacks set and not yet run
RECURSIVE ListenerCount(_)
ListenerCount(k) ==
  IF k < 0 THEN 0 ELSE Len(listeners[k]) + ListenerCount(k - 1)

Pending == Len(timers) + ListenerCount(totalSlides - 1)

SlideClasses == {"pre-left", "pre-right", "exiting-left", "exiting-right"}

\* lines 696-698: currentSlide = n, wrapped at both ends
Wrapped(n) ==
  IF n >= totalSlides THEN 0
  ELSE IF n < 0 THEN totalSlides - 1
  ELSE n

navFrame ==
  /\ UNCHANGED <<pc, transition, totalSlides, themeLogo, dataLogo>>
  /\ UNCHANGED <<mainVars, slidesContent, slides, i, segVars, mdVars, inlineVars>>

\* lines 687-750
showSlide(n, dir) ==
  LET previousIndex == jsCurrentSlide
      next          == Wrapped(n)
      cleared       == [classList EXCEPT ![previousIndex] = @ \ {"exiting"}]
  IN  /\ jsCurrentSlide' = next
      /\ counter' = next + 1
      /\ IF previousIndex = next
         THEN /\ classList' = [cleared EXCEPT ![next] = @ \cup {"active"}]
              /\ UNCHANGED <<timers, listeners>>
         ELSE IF transition = "fade"
         THEN /\ classList' = [cleared EXCEPT ![next] = @ \cup {"active"}]
              /\ timers' = Append(timers, previousIndex)
              /\ UNCHANGED listeners
         ELSE IF transition = "slide"
         THEN /\ classList' =
                   [cleared EXCEPT
                      ![next] = (@ \ SlideClasses)
                                \cup {IF dir >= 0 THEN "pre-right" ELSE "pre-left"}
                                \cup {"active"},
                      ![previousIndex] =
                         (@ \ SlideClasses)
                         \cup {IF dir >= 0 THEN "exiting-left" ELSE "exiting-right"}]
              /\ listeners' = [listeners EXCEPT
                                 ![previousIndex] = Append(@, "handler"),
                                 ![next] = Append(@, "cleanNext")]
              /\ UNCHANGED timers
         ELSE /\ classList' = [cleared EXCEPT
                                 ![previousIndex] = @ \ {"active"},
                                 ![next] = @ \cup {"active"}]
              /\ UNCHANGED <<timers, listeners>>

\* lines 752-754, from the button or the keydown listener of lines 761-767
nextSlide ==
  /\ pc = "page"
  /\ Pending + 2 <= MaxPending
  /\ showSlide(jsCurrentSlide + 1, 1)
  /\ navFrame

\* lines 756-758
previousSlide ==
  /\ pc = "page"
  /\ Pending + 2 <= MaxPending
  /\ showSlide(jsCurrentSlide - 1, 0 - 1)
  /\ navFrame

\* lines 712-714: the oldest zero-delay timer runs
TimerFires ==
  /\ pc = "page"
  /\ timers # <<>>
  /\ classList' = [classList EXCEPT ![Head(timers)] = @ \ {"active"}]
  /\ timers' = Tail(timers)
  /\ UNCHANGED <<jsCurrentSlide, counter, listeners>>
  /\ navFrame

\* the listeners that stay after a transitionend event of a property: handler
\* removes itself, cleanNext only when the property is transform
RECURSIVE Remaining(_, _)
Remaining(ls, property) ==
  IF ls = <<>> THEN <<>>
  ELSE IF Head(ls) = "cleanNext" /\ property # "transform"
  THEN <<Head(ls)>> \o Remaining(Tail(ls), property)
  ELSE Remaining(Tail(ls), property)

\* lines 733-743: a transitionend event reaches slides[k] and its listeners run
TransitionEnd ==
  /\ pc = "page"
  /\ \E k \in 0..totalSlides - 1, property \in {"transform", "opacity"} :
        /\ listeners[k] # <<>>
        /\ LET ran == {listeners[k][j] : j \in 1..Len(listeners[k])}
               gone == (IF "handler" \in ran
                        THEN {"active", "exiting-left", "exiting-right"} ELSE {})
                       \cup (IF "cleanNext" \in ran /\ property = "transform"
                             THEN {"pre-left", "pre-right"} ELSE {})
           IN  classList' = [classList EXCEPT ![k] = @ \ gone]
        /\ listeners' = [listeners EXCEPT ![k] = Remaining(@, property)]
  /\ UNCHANGED <<jsCurrentSlide, counter, timers>>
  /\ navFrame

(***************************************************************************)
(* Inputs.                                                                 *)
(***************************************************************************)
TitleLine == TitleKey \o <<"T">>

\* the lines a document given to parseFrontmatter is made of
FrontLineSet == {Dashes, TitleLine, <<"x">>, <<"[">>, <<>>}

FrontDocs == {Join(ls, NL) : ls \in SeqsUpTo(FrontLineSet, MaxFrontLines)}

\* the lines a body given to parseMarkdown is made of
BodyLineSet == {Dashes, <<"#", " ", "A">>, <<"b">>, Fence, <<>>}

BodyDocs == {Join(ls, NL) : ls \in SeqsUpTo(BodyLineSet, MaxBodyLines)}

\* the pieces a line given to parseInline is made of
InlineFragments ==
  {<<Backtick, "a", Backtick>>,
   <<Backtick>> \o Placeholder(0) \o <<Backtick>>,
   <<Backtick>> \o Placeholder(1) \o <<Backtick>>,
   Placeholder(0),
   <<Backtick, "<", "*", Backtick>>,
   <<"[", "x", "]", "(", "u", ")">>,
   <<"[", "x", "]", "(", "*", "*", "u", "*", "*", ")">>,
   <<"*", "b", "*">>,
   <<"*">>,
   <<"!">>,
   <<" ">>}

\* the lines a slide given to markdownToHTML is made of
SlideLineSet ==
  {Fence,
   <<"<", "&", ">">>,
   <<"#", " ", "<">>,
   <<"#", "<">>,
   <<"#", "#", "#", "#", "#", "#", "#", " ", "<">>,
   <<"-", " ", ">">>,
   <<"1", ".", " ", "&">>,
   <<"[", "<", "]", "(", ">", ")">>,
   <<"!", "[", "&", "]", "(", "<", ")">>,
   <<Backtick, "<", Backtick>>,
   <<"\"", "'">>,
   Dashes,
   <<>>}

SlideTexts == {Join(ls, NL) : ls \in SeqsUpTo(SlideLineSet, MaxSlideLines)}

\* the lines a document given to main is made of
DocLineSet == {Dashes, Fence, <<" ">> \o Fence, <<"#", " ", "A">>, <<"b">>}

Docs == {Join(ls, NL) : ls \in SeqsUpTo(DocLineSet, MaxDocLines)}

\* theme.FirstSlide and theme.LastSlide
FirstSlides ==
  {<<>>, <<" ">>, <<"-", " ", "F", "\n", "\n", "1", ".", " ", "G">>}

LastSlides == {<<>>, <<"L">>}

RECURSIVE Concat(_)
Concat(pieces) ==
  IF Len(pieces) = 0 THEN <<>> ELSE Head(pieces) \o Concat(Tail(pieces))

InlineTexts == {Concat(ps) : ps \in SeqsUpTo(InlineFragments, MaxInlineFragments)}

InitSegVars ==
  /\ lines = <<>>
  /\ lineNo = 0
  /\ currentSlide = <<>>
  /\ segInCodeBlock = FALSE
  /\ pmSlides = <<>>

InitMdVars ==
  /\ mdLines = <<>>
  /\ mdLineNo = 0
  /\ result = <<>>
  /\ inCodeBlock = FALSE
  /\ inUL = FALSE
  /\ inOL = FALSE
  /\ dispatched = {}
  /\ rawOf = <<>>

InitInlineVars ==
  /\ text = <<>>
  /\ codePlaceholders = <<>>
  /\ ranged = {}
  /\ inlineArg = <<>>

\* lines 673-675 and 683-685: the page as it is loaded, the first slide active
InitNavVars ==
  /\ jsCurrentSlide = 0
  /\ classList = [k \in 0..totalSlides - 1 |->
                    IF k = 0 THEN {"active"} ELSE {"pre-right"}]
  /\ counter = 1
  /\ timers = <<>>
  /\ listeners = [k \in 0..totalSlides - 1 |-> <<>>]

InitPageVars ==
  /\ themeLogo = <<>>
  /\ dataLogo = <<>>
  /\ transition = "cut"
  /\ totalSlides = 1
  /\ InitNavVars

InitRest ==
  /\ firstSlide = <<>>
  /\ lastSlide = <<>>
  /\ slidesContent = <<>>
  /\ slides = <<>>
  /\ i = 0
  /\ InitSegVars
  /\ InitMdVars
  /\ InitInlineVars
  /\ InitPageVars

(***************************************************************************)
(* parseFrontmatter on every document of FrontDocs.                        *)
(***************************************************************************)
InitFront ==
  /\ pc = "parseFrontmatter"
  /\ mdContent \in FrontDocs
  /\ deckTitle = <<>>
  /\ body = <<>>
  /\ InitRest

NextFront == CallParseFrontmatter

SpecFront == InitFront /\ [][NextFront]_vars

(***************************************************************************)
(* parseMarkdown on every body of BodyDocs.                                *)
(***************************************************************************)
InitSegment ==
  /\ pc = "parseMarkdown"
  /\ mdContent = <<>>
  /\ deckTitle = <<>>
  /\ body \in BodyDocs
  /\ InitRest

NextSegment ==
  \/ ParseMarkdownSplit
  \/ HeadingLoopStep
  \/ HeadingLoopReturn

SpecSegment == InitSegment /\ [][NextSegment]_vars

(***************************************************************************)
(* What the claims about parseMarkdown are stated against: the lines of    *)
(* the trimmed body.                                                       *)
(***************************************************************************)
BodyLines == Split(TrimSpace(body), NL)

\* a separator: a line that is exactly three dashes, with a line before it and
\* a line after it
SeparatorLines(ls) == {k \in 2..Len(ls) - 1 : ls[k] = Dashes}

\* the runs of lines between the separators, each joined
RECURSIVE ChunksBetween(_, _, _)
ChunksBetween(ls, k, cur) ==
  IF k > Len(ls) THEN <<Join(cur, NL)>>
  ELSE IF k \in SeparatorLines(ls)
  THEN <<Join(cur, NL)>> \o ChunksBetween(ls, k + 1, <<>>)
  ELSE ChunksBetween(ls, k + 1, Append(cur, ls[k]))

TrimmedNonEmpty(chunks) ==
  SelectSeq([k \in 1..Len(chunks) |-> TrimSpace(chunks[k])], LAMBDA c : c # <<>>)

\* the fence flag before line k: off after an even number of fence lines
FenceOff(ls, k) ==
  Cardinality({j \in 1..k - 1 : HasPrefix(ls[j], Fence)}) % 2 = 0

\* the lines that begin with # while the fence flag is off
HeadingStarts(ls) ==
  {k \in 1..Len(ls) : HasPrefix(ls[k], <<"#">>) /\ FenceOff(ls, k)}

\* the lines cut before every line of HeadingStarts
RECURSIVE CutAt(_, _, _)
CutAt(ls, cuts, k) ==
  IF k > Len(ls) THEN <<>>
  ELSE LET later == {c \in cuts : c > k}
           stop  == IF later = {} THEN Len(ls) + 1 ELSE SetMin(later)
       IN  <<Join(SubSeq(ls, k, stop - 1), NL)>> \o CutAt(ls, cuts, stop)

Returned == pc = "augment"

\* C5: with at least one separator in the trimmed body, parseMarkdown returns, in
\* document order, exactly the trimmed non-empty chunks between the separators,
\* and at most separators + 1 of them.
SeparatorPathReturnsChunks ==
  (Returned /\ SeparatorLines(BodyLines) # {}) =>
     /\ slidesContent = TrimmedNonEmpty(ChunksBetween(BodyLines, 1, <<>>))
     /\ Len(slidesContent) <= Cardinality(SeparatorLines(BodyLines)) + 1

\* C6: without a separator, parseMarkdown cuts the lines of the trimmed body
\* exactly before the lines that begin with # while the fence flag is off: every
\* slide after the first begins with such a line, no slide holds one after its
\* first line, and a # line inside a fence starts no slide.
HeadingPathCutsAtHeadings ==
  (Returned /\ SeparatorLines(BodyLines) = {}) =>
     /\ slidesContent = CutAt(BodyLines, HeadingStarts(BodyLines), 1)
     /\ \A n \in 2..Len(slidesContent) : HasPrefix(slidesContent[n], <<"#">>)

\* C6 witness: two slides, the second holding a fenced # line after its heading
HeadingPathFencedHeadingKept ==
  /\ Returned
  /\ SeparatorLines(BodyLines) = {}
  /\ Len(slidesContent) = 2
  /\ \E k \in 1..Len(BodyLines) :
        HasPrefix(BodyLines[k], <<"#">>) /\ ~FenceOff(BodyLines, k)

\* C7: no slide parseMarkdown returns is empty or only whitespace.
NoBlankSlide ==
  Returned => \A n \in 1..Len(slidesContent) : TrimSpace(slidesContent[n]) # <<>>

(***************************************************************************)
(* What the claims about parseFrontmatter are stated against: the lines of *)
(* the trimmed document.                                                   *)
(***************************************************************************)
DocLines == Split(TrimSpace(mdContent), NL)

OpensWithDelimiter == DocLines[1] = Dashes

ClosingLines == {k \in 2..Len(DocLines) : DocLines[k] = Dashes}

Enclosed == Join(SubSeq(DocLines, 2, SetMin(ClosingLines) - 1), NL)

AfterClosing == Join(SubSeq(DocLines, SetMin(ClosingLines) + 1, Len(DocLines)), NL)

Extracted == pc = "parseMarkdown"

\* C8: a document that opens with a delimiter line, has a later delimiter line
\* and whose enclosed text parses gives the mapping's title and, as body, the
\* text after the first closing line, wherever that line is.
FrontmatterExtracted ==
  (/\ Extracted
   /\ OpensWithDelimiter
   /\ ClosingLines # {}
   /\ ~yamlUnmarshal(Enclosed).err) =>
     /\ deckTitle = yamlUnmarshal(Enclosed).Title
     /\ body = AfterClosing

\* the three failure paths of C9
FrontmatterFailure ==
  \/ ~OpensWithDelimiter
  \/ ClosingLines = {}
  \/ yamlUnmarshal(Enclosed).err

\* C9: on every failure path parseFrontmatter returns the empty title and the
\* document as it was given, untrimmed.
FrontmatterConservative ==
  (Extracted /\ FrontmatterFailure) => (deckTitle = <<>> /\ body = mdContent)

\* C9 witness: a block that does not parse, closed before the last line, in a
\* document with whitespace around it, handed back whole
FrontmatterFailureUntrimmed ==
  /\ Extracted
  /\ OpensWithDelimiter
  /\ ClosingLines # {}
  /\ SetMin(ClosingLines) < Len(DocLines)
  /\ yamlUnmarshal(Enclosed).err
  /\ mdContent # TrimSpace(mdContent)
  /\ body = mdContent

(***************************************************************************)
(* markdownToHTML on every slide of SlideTexts.                            *)
(***************************************************************************)
InitRender ==
  /\ pc = "convert"
  /\ mdContent = <<>>
  /\ deckTitle = <<>>
  /\ body = <<>>
  /\ firstSlide = <<>>
  /\ lastSlide = <<>>
  /\ \E md \in SlideTexts : slidesContent = <<md>>
  /\ slides = <<ZeroSlide>>
  /\ i = 0
  /\ InitSegVars
  /\ InitMdVars
  /\ InitInlineVars
  /\ InitPageVars

NextRender ==
  \/ ConvertSlide
  \/ FenceLine
  \/ CodeLine
  \/ HeadingLine
  \/ RuleLine
  \/ UnorderedItem
  \/ OrderedItem
  \/ ParagraphLine
  \/ BlankLine
  \/ EndOfInput
  \/ ConvertDone

SpecRender == InitRender /\ [][NextRender]_vars

(***************************************************************************)
(* main on every document of Docs, with every theme of FirstSlides and     *)
(* LastSlides.                                                             *)
(***************************************************************************)
Init ==
  /\ pc = "parseFrontmatter"
  /\ mdContent \in Docs
  /\ deckTitle = <<>>
  /\ body = <<>>
  /\ firstSlide \in FirstSlides
  /\ lastSlide \in LastSlides
  /\ slidesContent = <<>>
  /\ slides = <<>>
  /\ i = 0
  /\ InitSegVars
  /\ InitMdVars
  /\ InitInlineVars
  /\ InitPageVars

Next ==
  \/ CallParseFrontmatter
  \/ ParseMarkdownSplit
  \/ HeadingLoopStep
  \/ HeadingLoopReturn
  \/ Augment
  \/ ConvertSlide
  \/ FenceLine
  \/ CodeLine
  \/ HeadingLine
  \/ RuleLine
  \/ UnorderedItem
  \/ OrderedItem
  \/ ParagraphLine
  \/ BlankLine
  \/ EndOfInput
  \/ ConvertDone

Spec == Init /\ [][Next]_vars

(***************************************************************************)
(* parseInline on every line of InlineTexts.                               *)
(***************************************************************************)
InitInline ==
  /\ pc = "escape"
  /\ mdContent = <<>>
  /\ deckTitle = <<>>
  /\ body = <<>>
  /\ firstSlide = <<>>
  /\ lastSlide = <<>>
  /\ slidesContent = <<>>
  /\ slides = <<>>
  /\ i = 0
  /\ InitSegVars
  /\ InitMdVars
  /\ inlineArg \in InlineTexts
  /\ text = inlineArg
  /\ codePlaceholders = <<>>
  /\ ranged = {}
  /\ InitPageVars

NextInline ==
  \/ InlineEscape
  \/ InlineCode
  \/ InlineImage
  \/ InlineLink
  \/ InlineBold
  \/ InlineItalic
  \/ InlineRestore
  \/ InlineReturn

SpecInline == InitInline /\ [][NextInline]_vars

\* the code spans of the argument, as they stand after the escape pass, each
\* wrapped in <code>
EscapedSpans == CodePlaceholders(EscapeString(inlineArg), 1)

InlineReturned == pc = "returned"

\* C3: the content of every inline code span stands in the output as it stood
\* after the escape pass, wrapped in <code> and </code>; no later pass, the
\* restoration of another span included, changes it.
CodeSpansVerbatim ==
  InlineReturned =>
     \A n \in 1..Len(EscapedSpans) : IndexFrom(text, EscapedSpans[n], 1) # 0

\* C4: a piece of text becomes <code> markup only if it is a placeholder the
\* extraction pass put there, so the output holds as many <code> elements as
\* code spans were extracted.
OneCodeElementPerSpan ==
  InlineReturned => Count(text, CodeOpen) = Len(EscapedSpans)

(***************************************************************************)
(* What the claims about the rendered fragments are stated against.        *)
(***************************************************************************)
Tag(name) == <<"<">> \o name \o <<">">>

\* the element names markdownToHTML and parseInline write
ElementNames ==
  {<<"p">>, <<"u", "l">>, <<"o", "l">>, <<"l", "i">>, <<"p", "r", "e">>,
   <<"c", "o", "d", "e">>, <<"s", "t", "r", "o", "n", "g">>, <<"e", "m">>,
   <<"h", "1">>, <<"h", "2">>, <<"h", "3">>, <<"h", "4">>, <<"h", "5">>,
   <<"h", "6">>, <<"a">>}

\* the tags written whole
WholeTags ==
  ({Tag(n) : n \in ElementNames} \ {Tag(<<"a">>)})
  \cup {Tag(<<"/">> \o n) : n \in ElementNames}
  \cup {Tag(<<"h", "r">>)}

\* how a generated tag can begin, and how it can end
TagBeginnings ==
  WholeTags \cup {<<"<", "i", "m", "g", " ", "s", "r", "c", "=", "\"">>,
                  <<"<", "a", " ", "h", "r", "e", "f", "=", "\"">>}

TagEndings == WholeTags \cup {<<"\"", "/", ">">>, <<"\"", ">">>}

\* the escaped forms
Entities ==
  {<<"&", "a", "m", "p", ";">>, <<"&", "l", "t", ";">>, <<"&", "g", "t", ";">>,
   <<"&", "#", "3", "9", ";">>, <<"&", "#", "3", "4", ";">>}

\* every <, > and & of out belongs to a generated tag or to an escaped form
WellEscaped(out) ==
  \A k \in 1..Len(out) :
     /\ out[k] = "<" => \E t \in TagBeginnings : MatchAt(out, t, k)
     /\ out[k] = ">" => \E t \in TagEndings : MatchAt(out, t, k - Len(t) + 1)
     /\ out[k] = "&" => \E e \in Entities : MatchAt(out, e, k)

\* C1: whatever the slide text, every <, > and & of the source is in the
\* rendered fragment only in its escaped form: the only bare <, > and & of the
\* fragment, while it is built and when it is stored, are those of the tags
\* the parser writes.
SourceAlwaysEscaped ==
  /\ WellEscaped(result)
  /\ \A k \in 1..Len(slides) : WellEscaped(slides[k].Content)

\* C1 witness: a fragment holding an escaped link label and target, and an
\* escaped line of a code block
EscapedLinkAndCodeLine ==
  /\ pc = "serve"
  /\ slidesContent[1] =
       Join(<<<<"[", "<", "]", "(", ">", ")">>, Fence, <<"<", "&", ">">>>>, NL)
  /\ IndexFrom(slides[1].Content,
               <<"&", "g", "t", ";", "\"", ">", "&", "l", "t", ";", "<", "/", "a", ">">>,
               1) # 0
  /\ IndexFrom(slides[1].Content,
               PreOpen \o <<"&", "l", "t", ";", "&", "a", "m", "p", ";", "&", "g", "t", ";">>,
               1) # 0

(***************************************************************************)
(* What the claims about the whole run of main are stated against.         *)
(***************************************************************************)
\* the lines of the document as it was read
RawLines == Split(mdContent, NL)

\* a fence line, indented or not
IsFenceLine(l) == HasPrefix(TrimSpace(l), Fence)

\* line k lies between an opening fence line and its closing fence line
InsideFence(ls, k) ==
  /\ ~IsFenceLine(ls[k])
  /\ Cardinality({j \in 1..k - 1 : IsFenceLine(ls[j])}) % 2 = 1
  /\ \E j \in k + 1..Len(ls) : IsFenceLine(ls[j])

\* the lines of a text, as a set
LinesOf(t) == {Split(t, NL)[j] : j \in 1..Len(Split(t, NL))}

\* the text of line k is the text of no other line of the run
OnlyHere(ls, k) ==
  /\ \A j \in 1..Len(ls) : j # k => TrimSpace(ls[j]) # TrimSpace(ls[k])
  /\ \A l \in LinesOf(firstSlide) \cup LinesOf(lastSlide) :
        TrimSpace(l) # TrimSpace(ls[k])

\* C2: no line between an opening fence line and its closing fence line of the
\* document is emitted as a heading, rule, list item or paragraph (the branches
\* that hand text to parseInline), whatever the line holds and whether or not
\* the fence lines are indented.
FencedLinesNeverDispatched ==
  \A k \in 1..Len(RawLines) :
     (InsideFence(RawLines, k) /\ OnlyHere(RawLines, k)) =>
        TrimSpace(RawLines[k]) \notin dispatched

\* the theme's slide, when main adds it
ThemeSlide(slide) == IF TrimSpace(slide) # <<>> THEN <<slide>> ELSE <<>>

\* C10: the deck handed to the handlers is numbered 1..n in list order, and it
\* is the theme's first slide (if any), the slides parseMarkdown returned in
\* their order, and the theme's last slide (if any).
DeckNumberedInOrder ==
  pc = "serve" =>
     /\ \A k \in 1..Len(slides) : slides[k].Number = k
     /\ Len(slides) = Len(rawOf)
     /\ rawOf = ThemeSlide(firstSlide) \o pmSlides \o ThemeSlide(lastSlide)

\* C10 witness: a deck of a first slide, two document slides and a last slide
DeckWithFirstAndLast ==
  /\ pc = "serve"
  /\ Len(pmSlides) = 2
  /\ Len(slides) = 4
  /\ slides[1].Number = 1
  /\ rawOf[1] = firstSlide
  /\ slides[4].Number = 4
  /\ rawOf[4] = lastSlide

(***************************************************************************)
(* What the claims about the lists and containers of a fragment are stated *)
(* against.                                                                *)
(***************************************************************************)
\* a tag on a line of its own, as the list tags are written
TagLine(name) == Tag(name) \o NL

\* how many elements of a name are open at the end of out
OpenCount(out, name) ==
  Count(out, TagLine(name)) - Count(out, TagLine(<<"/">> \o name))

\* what a step of the loop appends to result
Written == SubSeq(result', Len(result) + 1, Len(result'))

\* at most one list is open in what has been written, and the flags say which
AtMostOneListOpen ==
  LET ul == OpenCount(result, <<"u", "l">>)
      ol == OpenCount(result, <<"o", "l">>)
  IN  /\ ul \in {0, 1}
      /\ ol \in {0, 1}
      /\ ul + ol <= 1
      /\ pc = "mdLoop" => ((inUL <=> ul = 1) /\ (inOL <=> ol = 1))

\* an item of the other type closes the open list and then opens its own; an
\* item of the same type writes no list tag
ListSwitchStep ==
  /\ (AtLine("unordered") /\ inOL) =>
        HasPrefix(Written, <<"<", "/", "o", "l", ">", "\n", "<", "u", "l", ">", "\n", "<", "l",
    "i", ">">>)
  /\ (AtLine("ordered") /\ inUL) =>
        HasPrefix(Written, <<"<", "/", "u", "l", ">", "\n", "<", "o", "l", ">", "\n", "<", "l",
    "i", ">">>)
  /\ ((AtLine("unordered") /\ inUL) \/ (AtLine("ordered") /\ inOL)) =>
        /\ HasPrefix(Written, <<"<", "l", "i", ">">>)
        /\ \A name \in {<<"u", "l">>, <<"o", "l">>, <<"/", "u", "l">>, <<"/", "o", "l">>} :
              Count(Written, TagLine(name)) = 0

\* C11: during markdownToHTML at most one list is open at any point of any
\* line sequence; an unordered item arriving while an ordered list is open
\* writes </ol> before <ul>, an ordered item arriving while an unordered list
\* is open writes </ul> before <ol>, and consecutive items of one type are
\* written inside one list element.
OneListAtATime == [](AtMostOneListOpen) /\ [][ListSwitchStep]_vars

\* C11 witness: two unordered items and an ordered item, rendered as one <ul>
\* of two items followed by one <ol> of one item
TwoItemsThenSwitch ==
  /\ pc = "serve"
  /\ slidesContent[1] = <<"-", " ", ">", "\n", "-", " ", ">", "\n", "1", ".", " ", "&">>
  /\ slides[1].Content =
       <<"<", "u", "l", ">", "\n", "<", "l", "i", ">", "&", "g", "t", ";",
    "<", "/", "l", "i", ">", "\n", "<", "l", "i", ">", "&", "g", "t",
    ";", "<", "/", "l", "i", ">", "\n", "<", "/", "u", "l", ">", "\n",
    "<", "o", "l", ">", "\n", "<", "l", "i", ">", "&", "a", "m", "p",
    ";", "<", "/", "l", "i", ">", "\n", "<", "/", "o", "l", ">", "\n">>

\* a heading, rule or blank line keeps the list flags and writes no closing
\* list tag; a fence or paragraph line writes the closing tag of the open list
\* first and leaves no list open
ListFrameStep ==
  /\ (AtLine("heading") \/ AtLine("rule") \/ AtLine("blank")) =>
        /\ inUL' = inUL
        /\ inOL' = inOL
        /\ Count(Written, TagLine(<<"/", "u", "l">>)) = 0
        /\ Count(Written, TagLine(<<"/", "o", "l">>)) = 0
        /\ OpenCount(result', <<"u", "l">>) = OpenCount(result, <<"u", "l">>)
        /\ OpenCount(result', <<"o", "l">>) = OpenCount(result, <<"o", "l">>)
  /\ (AtLine("fence") \/ AtLine("paragraph")) =>
        /\ ~inUL'
        /\ ~inOL'
        /\ inUL => HasPrefix(Written, TagLine(<<"/", "u", "l">>))
        /\ inOL => HasPrefix(Written, TagLine(<<"/", "o", "l">>))
        /\ OpenCount(result', <<"u", "l">>) = 0
        /\ OpenCount(result', <<"o", "l">>) = 0

\* C13: in markdownToHTML a heading line, a horizontal-rule line and a blank
\* line leave the list state unchanged and write no closing list tag, so the
\* items they separate stay in one list element; a fence line and a non-empty
\* paragraph line close whichever list is open before writing anything else.
ListKeptOrClosed == [][ListFrameStep]_vars

\* C13 witness: two items separated by a heading, in one <ul>
HeadingInsideList ==
  /\ pc = "serve"
  /\ slidesContent[1] = <<"-", " ", ">", "\n", "#", " ", "<", "\n", "-", " ", ">">>
  /\ slides[1].Content =
       <<"<", "u", "l", ">", "\n", "<", "l", "i", ">", "&", "g", "t", ";",
    "<", "/", "l", "i", ">", "\n", "<", "h", "1", ">", "&", "l", "t",
    ";", "<", "/", "h", "1", ">", "\n", "<", "l", "i", ">", "&", "g",
    "t", ";", "<", "/", "l", "i", ">", "\n", "<", "/", "u", "l", ">",
    "\n">>

(***************************************************************************)
(* normalizeAssetPath on every path of LogoPaths.                          *)
(***************************************************************************)
MaxPathPieces == 3

\* the pieces a path given to normalizeAssetPath is made of
PathPieces ==
  {<<"h", "t", "t", "p", ":", "/", "/">>, <<"H", "T", "T", "P", "S", ":", "/", "/">>, <<"D", "a", "t", "a", ":">>, <<"/">>, <<"a">>, <<"H", "t", "t", "p", ":", "/">>, <<"B", ".", "p", "n", "g">>}

LogoPaths == {Concat(ps) : ps \in SeqsUpTo(PathPieces, MaxPathPieces)}

InitResolve ==
  /\ pc = "renderSlides"
  /\ mdContent = <<>>
  /\ deckTitle = <<>>
  /\ body = <<>>
  /\ firstSlide = <<>>
  /\ lastSlide = <<>>
  /\ slidesContent = <<>>
  /\ slides = <<>>
  /\ i = 0
  /\ InitSegVars
  /\ InitMdVars
  /\ InitInlineVars
  /\ themeLogo \in LogoPaths
  /\ dataLogo = <<>>
  /\ transition = "cut"
  /\ totalSlides = 1
  /\ InitNavVars

NextResolve == SetLogo

SpecResolve == InitResolve /\ [][NextResolve]_vars

\* two characters that are one letter, whatever the case of each
SameLetter(a, b) ==
  a = b \/ \E n \in 1..26 : {a, b} = {UpperLetters[n], LowerLetters[n]}

\* s begins with prefix, compared case-insensitively
BeginsWithAnyCase(s, prefix) ==
  /\ Len(s) >= Len(prefix)
  /\ \A k \in 1..Len(prefix) : SameLetter(s[k], prefix[k])

\* the beginnings normalizeAssetPath leaves alone
KeptBeginnings == {<<"h", "t", "t", "p", ":", "/", "/">>, <<"h", "t", "t", "p", "s", ":", "/", "/">>, <<"d", "a", "t", "a", ":">>, <<"/">>}

\* C12: normalizeAssetPath returns its argument unchanged exactly when the
\* argument, compared case-insensitively, begins with http://, https://, data:
\* or /; for every other argument it returns /assets/ followed by the argument,
\* the argument's letter case kept in both cases.
ResolveKeepsOrPrefixes ==
  pc = "rendered" =>
     IF \E b \in KeptBeginnings : BeginsWithAnyCase(themeLogo, b)
     THEN dataLogo = themeLogo
     ELSE /\ dataLogo = <<"/", "a", "s", "s", "e", "t", "s", "/">> \o themeLogo
          /\ dataLogo # themeLogo

\* C12 witness: an upper-case https address with an upper-case file name,
\* returned as it is
UpperCaseAddressKept ==
  /\ pc = "rendered"
  /\ themeLogo = <<"H", "T", "T", "P", "S", ":", "/", "/", "B", ".", "p", "n", "g">>
  /\ dataLogo = themeLogo

\* how many code containers are open at the end of out
OpenContainers(out) ==
  Count(out, <<"<", "p", "r", "e", ">", "<", "c", "o", "d", "e", ">">>) - Count(out, <<"<", "/", "c", "o", "d", "e", ">", "<", "/", "p", "r", "e", ">">>)

\* the containers and lists of out never close more than was opened, and no
\* two of them are open together
NeverTwoOpen ==
  LET pre == OpenContainers(result)
      ul  == OpenCount(result, <<"u", "l">>)
      ol  == OpenCount(result, <<"o", "l">>)
  IN  /\ {pre, ul, ol} \subseteq {0, 1}
      /\ pre + ul + ol <= 1
      /\ pc = "mdLoop" => (inCodeBlock <=> pre = 1)
      /\ ~(inCodeBlock /\ (inUL \/ inOL))

\* every stored fragment has as many closings as openings
StoredBalanced ==
  \A k \in 1..Len(slides) :
     /\ OpenContainers(slides[k].Content) = 0
     /\ OpenCount(slides[k].Content, <<"u", "l">>) = 0
     /\ OpenCount(slides[k].Content, <<"o", "l">>) = 0

\* at the end of the lines what is still open is closed: the code container,
\* then the unordered list, then the ordered list
ClosedAtEndStep ==
  (pc = "mdLoop" /\ mdLineNo > Len(mdLines)) =>
     Written = (IF OpenContainers(result) = 1 THEN <<"<", "/", "c", "o", "d", "e", ">", "<", "/", "p", "r", "e", ">">> ELSE <<>>)
               \o (IF OpenCount(result, <<"u", "l">>) = 1
                   THEN TagLine(<<"/", "u", "l">>) ELSE <<>>)
               \o (IF OpenCount(result, <<"o", "l">>) = 1
                   THEN TagLine(<<"/", "o", "l">>) ELSE <<>>)

\* C14: for every slide text the fragment markdownToHTML returns is balanced,
\* each <pre><code>, <ul> and <ol> it opens closed exactly once; an
\* unterminated fence or a list open at the last line is closed at the end of
\* the input, in the order code container, unordered list, ordered list; a
\* code block and a list are never open together.
FragmentBalanced ==
  [](NeverTwoOpen /\ StoredBalanced) /\ [][ClosedAtEndStep]_vars

\* C14 witness: a list closed by a fence that is never closed in the slide
\* text, the code container closed at the end of the input
UnterminatedFenceClosed ==
  /\ pc = "serve"
  /\ slidesContent[1] = <<"-", " ", ">", "\n", Backtick, Backtick, Backtick, "\n", "<", "&",
    ">">>
  /\ slides[1].Content =
       <<"<", "u", "l", ">", "\n", "<", "l", "i", ">", "&", "g", "t", ";",
    "<", "/", "l", "i", ">", "\n", "<", "/", "u", "l", ">", "\n", "<",
    "p", "r", "e", ">", "<", "c", "o", "d", "e", ">", "&", "l", "t", ";",
    "&", "a", "m", "p", ";", "&", "g", "t", ";", "\n", "<", "/", "c",
    "o", "d", "e", ">", "<", "/", "p", "r", "e", ">">>

\* the number of # characters a line begins with
RECURSIVE LeadingHashes(_)
LeadingHashes(s) ==
  IF s # <<>> /\ Head(s) = "#" THEN 1 + LeadingHashes(Tail(s)) ELSE 0

\* a heading line of level n: n # characters, 1 <= n <= 6, then whitespace
HeadingOfLevel(s, n) ==
  /\ LeadingHashes(s) = n
  /\ n \in 1..6
  /\ Len(s) > n
  /\ IsSpace(s[n + 1])

\* what is written begins a heading element of level n
WritesHeading(n) == HasPrefix(Written, <<"<", "h">> \o Decimal(n) \o <<">">>)

\* outside a code block a line is written as <hN> exactly when it is a heading
\* line of level N
HeadingStep ==
  (pc = "mdLoop" /\ mdLineNo <= Len(mdLines) /\ ~inCodeBlock
     /\ ~HasPrefix(Trimmed, Fence)) =>
     \A n \in 1..9 : WritesHeading(n) <=> HeadingOfLevel(Trimmed, n)

\* C15: outside a code block markdownToHTML writes a heading element <hN> for a
\* line if and only if the trimmed line starts with N # characters,
\* 1 <= N <= 6, followed by whitespace; a line whose # run is not followed by
\* whitespace, or is longer than 6, is not written as a heading.
HeadingIffHashesThenSpace == [][HeadingStep]_vars

(***************************************************************************)
(* What the claim about the attributes parseInline writes is stated        *)
(* against.                                                                *)
(***************************************************************************)
\* how the attributes of the image and link markup begin
AttributeOpeners == {<<" ", "s", "r", "c", "=", "\"">>, <<" ", "h", "r", "e", "f", "=", "\"">>, <<" ", "a", "l", "t", "=", "\"">>}

\* the value of the attribute whose opener ends before position from: the
\* characters up to the next quotation mark
AttributeValue(out, from) ==
  LET close == NextIndex(out, "\"", from)
  IN  SubSeq(out, from, (IF close = 0 THEN Len(out) ELSE close - 1))

\* C16: the markup of the image and link passes of parseInline is not altered
\* by the later bold and italic passes: the src, href and alt values are the
\* resolved target and the alt text, so no <strong> or <em> tag stands inside
\* an attribute value of the returned text.
AttributesUntouched ==
  InlineReturned =>
     \A k \in 1..Len(text) : \A opener \in AttributeOpeners :
        MatchAt(text, opener, k) =>
           LET value == AttributeValue(text, k + Len(opener))
           IN  /\ IndexFrom(value, <<"<", "s", "t", "r", "o", "n", "g", ">">>, 1) = 0
               /\ IndexFrom(value, <<"<", "e", "m", ">">>, 1) = 0

(***************************************************************************)
(* What the claim about the size of the deck is stated against.            *)
(***************************************************************************)
\* parseMarkdown has returned to main
SegmentReturned == pc \in {"augment", "convert", "mdLoop", "serve"}

\* C17: parseMarkdown returns at least one slide for every body, on the
\* separator path and on the heading path, so the deck handed to the handlers
\* has a slide numbered 1 and the slide count of the navigation script is
\* never zero.
AtLeastOneSlide ==
  /\ SegmentReturned => Len(pmSlides) >= 1
  /\ pc = "serve" => (Len(slides) >= 1 /\ slides[1].Number = 1)

\* C17 witness: the deck of an empty document with no theme slide, one slide
\* numbered 1
EmptyDocumentOneSlide ==
  /\ pc = "serve"
  /\ mdContent = <<>>
  /\ TrimSpace(firstSlide) = <<>>
  /\ TrimSpace(lastSlide) = <<>>
  /\ Len(pmSlides) = 1
  /\ Len(slides) = 1
  /\ slides[1].Number = 1

(***************************************************************************)
(* The navigation script on a page of 1..MaxDeckSlides slides, in every    *)
(* transition mode.                                                        *)
(***************************************************************************)
MaxDeckSlides == 3

InitNav ==
  /\ pc = "page"
  /\ mdContent = <<>>
  /\ deckTitle = <<>>
  /\ body = <<>>
  /\ firstSlide = <<>>
  /\ lastSlide = <<>>
  /\ slidesContent = <<>>
  /\ slides = <<>>
  /\ i = 0
  /\ InitSegVars
  /\ InitMdVars
  /\ InitInlineVars
  /\ themeLogo = <<>>
  /\ dataLogo = <<>>
  /\ transition \in {"cut", "fade", "slide"}
  /\ totalSlides \in 1..MaxDeckSlides
  /\ InitNavVars

NextNav ==
  \/ nextSlide
  \/ previousSlide
  \/ TimerFires
  \/ TransitionEnd

SpecNav == InitNav /\ [][NextNav]_vars

\* the slides that carry the active class
ActiveSlides == {k \in 0..totalSlides - 1 : "active" \in classList[k]}

\* C18: in every transition mode and for every sequence of next and previous
\* actions interleaved in any order with the callbacks they set, currentSlide
\* stays within 0..totalSlides-1, and once every pending callback has run
\* exactly one slide carries the active class: the slide at index currentSlide,
\* whose number the counter shows.
OneActiveSlideWhenSettled ==
  /\ jsCurrentSlide \in 0..totalSlides - 1
  /\ Pending = 0 => (ActiveSlides = {jsCurrentSlide} /\ counter = jsCurrentSlide + 1)

====
